---- MODULE Spec2Model ----
(***************************************************************************)
(* Route and capacity allocation engine of intellifleet-fullstack/backend: *)
(*   optimizer.py           optimize            (path selection, 0/1 ILP)  *)
(*   capacity_optimizer.py  prepare_vehicles_df, assign_vehicles_for_leg   *)
(*   main.py                optimize_with_capacity (plan aggregation),     *)
(*                          get_optimize, upload (graph ingestion)         *)
(*   utils.py               road_metrics, air_metrics                      *)
(*                                                                         *)
(* Both optimizers hand a 0/1 programme to CBC and read back one optimal   *)
(* solution.  Which optimum CBC returns is not fixed by the source, so     *)
(* every operator that models a solve is SET valued: it yields every value *)
(* the call can return, and the actions pick one with \E.                  *)
(*                                                                         *)
(* Units.  Weights (kg) are integers counted in grams, money in cents,     *)
(* distances in whole km, instants in seconds since 1900-01-01 00:00 (the  *)
(* date strptime("%H:%M") yields), "HH:MM" strings as minute of the day.   *)
(***************************************************************************)
EXTENDS Integers, Sequences, FiniteSets, TLC

VARIABLES nodes, edges, vehicles_df, pc, call, ret

vars == <<nodes, edges, vehicles_df, pc, call, ret>>

(***************************************************************************)
(* Python values                                                           *)
(***************************************************************************)
\* Optional values: None is the empty tuple, a present value v is <<v>>.
None == <<>>

Some(v) == <<v>>

\* Place names, listed in the order Python compares the strings (code
\* points: upper case before lower case).
NameOrder == <<"A", "B", "C", "a", "b", "c">>

Names == {NameOrder[i] : i \in 1..Len(NameOrder)}

\* Position of a name in Python's string order.
Rank(n) == CHOOSE i \in 1..Len(NameOrder) : NameOrder[i] = n

\* Place names of more than three letters (they occur in vehicle files).
LongNames == {"Mumbai", "mumbai", "mumbra"}

\* str.lower()
Lower(n) ==
  IF n \in LongNames THEN (IF n = "Mumbai" THEN "mumbai" ELSE n)
  ELSE IF Rank(n) <= 3 THEN NameOrder[Rank(n) + 3] ELSE n

RECURSIVE SumOver(_, _)
\* sum(f[x] for x in S)
SumOver(S, f) ==
  IF S = {} THEN 0
  ELSE LET x == CHOOSE y \in S : TRUE IN f[x] + SumOver(S \ {x}, f)

(***************************************************************************)
(* optimizer.py: optimize                                                  *)
(***************************************************************************)
\* The truthiness test `if via:`; via is None, a string or a list.
ViaNone == [kind |-> "None", v |-> <<>>]

ViaStr(n) == [kind |-> "str", v |-> <<n>>]

ViaList(s) == [kind |-> "list", v |-> s]

ViaTruthy(via) == via.kind # "None" /\ Len(via.v) > 0

ViaNodes(via) == {via.v[i] : i \in 1..Len(via.v)}

\* A coefficient that takes the time for "time" alone.
EdgeWeightTimeOnly(E, e, objective) ==
  IF objective = "time" THEN E[e].time
  ELSE IF objective = "distance" THEN E[e].distance
  ELSE E[e].fuel

\* Objective coefficient of edge e (lines 28-33).
EdgeWeight(E, e, objective) ==
  IF objective = "time" \/ objective = "fastest" THEN E[e].time
  ELSE IF objective = "distance" THEN E[e].distance
  ELSE E[e].fuel

\* lpSum(x[(i, j)] for (i, j) in edges if j == n) for the 0/1 vector whose
\* support is S.
Inflow(S, n) == Cardinality({e \in S : e[2] = n})

Outflow(S, n) == Cardinality({e \in S : e[1] = n})

\* Flow conservation constraints (lines 36-48), one per member of nodes.
FlowConservation(N, S, start, end) ==
  \A n \in N :
    IF n = start THEN Outflow(S, n) - Inflow(S, n) = 1
    ELSE IF n = end THEN Inflow(S, n) - Outflow(S, n) = 1
    ELSE Inflow(S, n) = Outflow(S, n)

\* Via constraints (lines 51-58).
ViaConstraint(S, via) ==
  ViaTruthy(via) => \A v \in ViaNodes(via) : Inflow(S, v) = 1

\* The supports of the feasible 0/1 vectors.
RouteFeasible(N, E, start, end, via) ==
  {S \in SUBSET (DOMAIN E) :
     FlowConservation(N, S, start, end) /\ ViaConstraint(S, via)}

RouteObjective(E, S, objective) ==
  SumOver(S, [e \in S |-> EdgeWeight(E, e, objective)])

\* A solve that reports any feasible support.
RouteAnyFeasible(N, E, start, end, objective, via) ==
  RouteFeasible(N, E, start, end, via)

\* The supports CBC may report with status 1 (Optimal).
RouteOptimal(N, E, start, end, objective, via) ==
  LET F == RouteFeasible(N, E, start, end, via)
  IN {S \in F : \A T \in F :
        RouteObjective(E, S, objective) <= RouteObjective(E, T, objective)}

\* Order of the sort key (r["from"], r["to"]).
KeyLess(e, f) ==
  \/ Rank(e[1]) < Rank(f[1])
  \/ Rank(e[1]) = Rank(f[1]) /\ Rank(e[2]) < Rank(f[2])

RECURSIVE SortedRouteDescending(_, _)
\* The selected edges listed from the greatest key down.
SortedRouteDescending(E, S) ==
  IF S = {} THEN <<>>
  ELSE LET m == CHOOSE e \in S : \A f \in S \ {e} : KeyLess(f, e)
       IN <<E[m]>> \o SortedRouteDescending(E, S \ {m})

RECURSIVE SortedRoute(_, _)
\* sorted(route, key=lambda r: (r.get("from"), r.get("to"))) (line 77).
SortedRoute(E, S) ==
  IF S = {} THEN <<>>
  ELSE LET m == CHOOSE e \in S : \A f \in S \ {e} : KeyLess(e, f)
       IN <<E[m]>> \o SortedRoute(E, S \ {m})

\* Every list optimize(nodes, edges, start, end, objective, via) can return.
optimize(N, E, start, end, objective, via) ==
  LET O == RouteOptimal(N, E, start, end, objective, via)
  IN IF O = {} THEN {<<>>} ELSE {SortedRoute(E, S) : S \in O}

(***************************************************************************)
(* Inputs of the path specification: a graph as /upload builds it (every   *)
(* end point of an edge is a node, and every node has an edge)             *)
(***************************************************************************)
MaxEdges == 3

GraphNames == {"a", "b", "c"}

\* (fuel, time, distance) of an edge: time and distance have a zero-weight
\* edge, and cost, time and distance disagree on direct edge against two
\* hops (cost 1 < 4 but time 2 > 0; time 0 < 4 but distance 1 > 0).
Profiles ==
  { [fuel |-> 1, time |-> 2, distance |-> 0],
    [fuel |-> 2, time |-> 0, distance |-> 1] }

EdgeRecord(e, p) ==
  [from |-> e[1], to |-> e[2], fuel |-> p.fuel, time |-> p.time,
   distance |-> p.distance]

\* The edge dictionaries with at most k keys over the names V.
EdgeDicts(V, k) ==
  UNION { {[e \in K |-> EdgeRecord(e, w[e])] : w \in [K -> Profiles]} :
          K \in {K \in SUBSET (V \X V) : Cardinality(K) <= k} }

\* The scenario of the specification, section 8: A->B, B->C, A->C.
ScenarioEdges ==
  LET ab == <<"a", "b">>
      bc == <<"b", "c">>
      ac == <<"a", "c">>
  IN [e \in {ab, bc, ac} |->
        IF e = ab THEN [from |-> "a", to |-> "b", fuel |-> 50, time |-> 2,
                        distance |-> 100]
        ELSE IF e = bc THEN [from |-> "b", to |-> "c", fuel |-> 75,
                             time |-> 3, distance |-> 150]
        ELSE [from |-> "a", to |-> "c", fuel |-> 200, time |-> 1,
              distance |-> 300]]

Objectives == {"cost", "time", "distance"}

\* No via, one via node (it is the start, the end or another node as start
\* and end vary), an empty list, a list of two.
Vias == {ViaNone, ViaStr("a"), ViaList(<<>>), ViaList(<<"a", "b">>)}

NoPool == <<>>

\* The nodes /upload leaves for these edges: their end points.
EndPoints(E) == {e[1] : e \in DOMAIN E} \cup {e[2] : e \in DOMAIN E}

InitPath ==
  /\ edges \in EdgeDicts(GraphNames, MaxEdges) \cup {ScenarioEdges}
  /\ nodes = EndPoints(edges)
  /\ vehicles_df = NoPool
  /\ pc = "ready"
  /\ call = [op |-> "none"]
  /\ ret = None

\* One call of optimize on the loaded graph.
CallOptimize ==
  /\ pc = "ready"
  /\ \E start \in GraphNames, end \in GraphNames, objective \in Objectives,
        via \in Vias :
       /\ call' = [op |-> "optimize", start |-> start, end |-> end,
                   objective |-> objective, via |-> via]
       /\ \E r \in optimize(nodes, edges, start, end, objective, via) :
            ret' = Some(r)
  /\ pc' = "returned"
  /\ UNCHANGED <<nodes, edges, vehicles_df>>

NextPath == CallOptimize

SpecPath == InitPath /\ [][NextPath]_vars

(***************************************************************************)
(* Path claims                                                             *)
(***************************************************************************)
Returned(op) == pc = "returned" /\ call.op = op

\* The node sequences of the directed simple paths from start to end.
DirectedPaths(E, start, end) ==
  {p \in UNION {[1..k -> GraphNames] : k \in 2..Cardinality(GraphNames)} :
     /\ p[1] = start
     /\ p[Len(p)] = end
     /\ \A i \in 1..Len(p) : \A j \in 1..Len(p) : i # j => p[i] # p[j]
     /\ \A i \in 1..(Len(p) - 1) : <<p[i], p[i + 1]>> \in DOMAIN E}

PathWeight(E, p, objective) ==
  LET I == 1..(Len(p) - 1)
  IN SumOver(I, [i \in I |-> EdgeWeight(E, <<p[i], p[i + 1]>>, objective)])

\* The objective weight summed over a returned edge list.
ListWeight(route, objective) ==
  LET I == 1..Len(route)
  IN SumOver(I, [i \in I |->
       IF objective = "time" THEN route[i].time
       ELSE IF objective = "distance" THEN route[i].distance
       ELSE route[i].fuel])

RouteKeys(route) == {<<route[i].from, route[i].to>> : i \in 1..Len(route)}

\* C1: on a graph with non-negative weights, start # end both in nodes, no
\* via node and a directed start-to-end path, optimize returns a non-empty
\* edge list whose objective weight is the minimum over all directed
\* start-to-end paths; on the section 8 scenario cost yields {A->B, B->C}
\* and time yields {A->C}.
C1_ShortestPath ==
  (/\ Returned("optimize")
   /\ ~ViaTruthy(call.via)
   /\ call.start # call.end
   /\ call.start \in nodes /\ call.end \in nodes
   /\ DirectedPaths(edges, call.start, call.end) # {})
  => /\ ret[1] # <<>>
     /\ \E p \in DirectedPaths(edges, call.start, call.end) :
          ListWeight(ret[1], call.objective)
            = PathWeight(edges, p, call.objective)
     /\ \A p \in DirectedPaths(edges, call.start, call.end) :
          ListWeight(ret[1], call.objective)
            <= PathWeight(edges, p, call.objective)
     /\ (edges = ScenarioEdges /\ call.start = "a" /\ call.end = "c")
        => IF call.objective = "time"
           THEN RouteKeys(ret[1]) = {<<"a", "c">>}
           ELSE IF call.objective = "cost"
           THEN RouteKeys(ret[1]) = {<<"a", "b">>, <<"b", "c">>}
           ELSE TRUE

\* The two-hop route of the scenario was preferred to the direct edge.
C1_Witness ==
  /\ Returned("optimize")
  /\ edges = ScenarioEdges /\ nodes = GraphNames
  /\ call.start = "a" /\ call.end = "c" /\ call.via = ViaNone
  /\ call.objective = "cost"
  /\ Len(ret[1]) = 2

\* Nodes joined to n by returned edges, following them forwards.
RECURSIVE ReachVia(_, _)
ReachVia(K, R) ==
  LET R2 == R \cup {e[2] : e \in {f \in K : f[1] \in R}}
  IN IF R2 = R THEN R ELSE ReachVia(K, R2)

\* v lies on the chain of returned edges leading from start to end.
OnChain(K, start, end, v) ==
  v \in ReachVia(K, {start}) /\ end \in ReachVia(K, {v})

\* C5: if optimize returns a non-empty result then every via node is
\* entered by exactly one returned edge and lies on the chain of returned
\* edges from start to end.  Stated for start # end both in nodes and for
\* the calls whose optimum is unique (so that no choice of the solver among
\* equal optima is involved).
C5_ViaOnPath ==
  (/\ Returned("optimize")
   /\ ViaTruthy(call.via)
   /\ call.start # call.end
   /\ call.start \in nodes /\ call.end \in nodes
   /\ Cardinality(optimize(nodes, edges, call.start, call.end,
                           call.objective, call.via)) = 1
   /\ ret[1] # <<>>)
  => \A v \in ViaNodes(call.via) :
       /\ Inflow(RouteKeys(ret[1]), v) = 1
       /\ OnChain(RouteKeys(ret[1]), call.start, call.end, v)

\* The edges of K can be chained start -> ... -> end, visiting no node
\* twice and leaving no edge of K outside the chain.
IsSimplePath(K, start, end) ==
  \E p \in UNION {[1..k -> GraphNames] : k \in 2..Cardinality(GraphNames)} :
    /\ p[1] = start
    /\ p[Len(p)] = end
    /\ \A i \in 1..Len(p) : \A j \in 1..Len(p) : i # j => p[i] # p[j]
    /\ K = {<<p[i], p[i + 1]>> : i \in 1..(Len(p) - 1)}

\* C6: with weights >= 0 (zero included) and no via node, every non-empty
\* result of optimize is the edge set of one simple start-to-end path.
\* Stated for the graphs that have no edge from a node to itself, and
\* start # end both in nodes.
C6_SimplePath ==
  (/\ Returned("optimize")
   /\ ~ViaTruthy(call.via)
   /\ \A e \in DOMAIN edges : e[1] # e[2]
   /\ call.start # call.end
   /\ call.start \in nodes /\ call.end \in nodes
   /\ ret[1] # <<>>)
  => IsSimplePath(RouteKeys(ret[1]), call.start, call.end)

\* C12: whenever start or end is not a member of the node set, optimize
\* returns the empty list.
C12_AbsentEndpoint ==
  (Returned("optimize") /\ (call.start \notin nodes \/ call.end \notin nodes))
  => ret[1] = <<>>

\* C26: for every graph in which every edge endpoint is a node, optimize
\* called with start = end returns the empty result: never a success
\* with an empty path, never a cycle through that node.
C26_StartEqualsEnd ==
  (/\ Returned("optimize")
   /\ \A e \in DOMAIN edges : e[1] \in nodes /\ e[2] \in nodes
   /\ call.start = call.end)
  => ret[1] = <<>>

\* The same for a start = end that is one of the nodes.
C26_StartEqualsEndInNodes ==
  (/\ Returned("optimize")
   /\ \A e \in DOMAIN edges : e[1] \in nodes /\ e[2] \in nodes
   /\ call.start = call.end
   /\ call.start \in nodes)
  => ret[1] = <<>>

\* C19: the edge list returned by optimize is sorted ascending by (origin
\* name, destination name), whatever the travel order of the edges.
C19_SortedByKey ==
  Returned("optimize")
  => \A i \in 1..(Len(ret[1]) - 1) :
       \/ Rank(ret[1][i].from) < Rank(ret[1][i + 1].from)
       \/ /\ ret[1][i].from = ret[1][i + 1].from
          /\ Rank(ret[1][i].to) <= Rank(ret[1][i + 1].to)

\* A two-hop route is listed against its travel order: the edge that
\* leaves the start comes second.
C19_Witness ==
  /\ Returned("optimize")
  /\ Len(ret[1]) = 2
  /\ call.start # call.end
  /\ ret[1][2].from = call.start
  /\ ret[1][2].to = ret[1][1].from
  /\ ret[1][1].to = call.end

(***************************************************************************)
(* optimizer.py: get_route_summary; main.py: GET /optimize                 *)
(***************************************************************************)
\* get_route_summary (optimizer.py, lines 80-107).  Edge values are whole
\* numbers of hundredths, as /upload stores them, so round(sum, 2) is the
\* sum; the edges of this graph carry no "mode" key.
get_route_summary(route) ==
  LET I == 1..Len(route)
  IN IF route = <<>>
     THEN [total_distance |-> 0, total_time |-> 0, total_fuel_cost |-> 0,
           segment_count |-> 0, modes |-> {}]
     ELSE [total_distance |-> SumOver(I, [i \in I |-> route[i].distance]),
           total_time |-> SumOver(I, [i \in I |-> route[i].time]),
           total_fuel_cost |-> SumOver(I, [i \in I |-> route[i].fuel]),
           segment_count |-> Len(route),
           modes |-> {"unknown"}]

\* A handler that answers 200 whatever optimize returns.
get_optimize_unchecked(N, E, source, destination, objective) ==
  IF source \notin N \/ destination \notin N
  THEN {[status |-> 400, detail |-> "Source or destination not found"]}
  ELSE {[status |-> 200, route |-> route,
         summary |-> get_route_summary(route)]
        : route \in optimize(N, E, Lower(source), Lower(destination),
                             objective, ViaNone)}

\* Every response of GET /optimize (main.py, lines 239-259) on the loaded
\* graph N, E; an HTTPException is its status code and detail.
get_optimize(N, E, source, destination, objective) ==
  IF source \notin N \/ destination \notin N
  THEN {[status |-> 400, detail |-> "Source or destination not found"]}
  ELSE {IF route = <<>>
        THEN [status |-> 404, detail |-> "No route found"]
        ELSE [status |-> 200, route |-> route,
              summary |-> get_route_summary(route)]
        : route \in optimize(N, E, Lower(source), Lower(destination),
                             objective, ViaNone)}

\* The objective is a free query string: the three documented names,
\* "fastest", and a name the code does not know.
QueryObjectives == {"cost", "time", "distance", "fastest", "cheapest"}

\* One request GET /optimize.
CallGetOptimize ==
  /\ pc = "ready"
  /\ \E source \in {"A", "a", "b", "c"}, destination \in GraphNames,
        objective \in QueryObjectives :
       /\ call' = [op |-> "get_optimize", source |-> source,
                   destination |-> destination, objective |-> objective]
       /\ \E r \in get_optimize(nodes, edges, source, destination, objective) :
            ret' = Some(r)
  /\ pc' = "returned"
  /\ UNCHANGED <<nodes, edges, vehicles_df>>

\* The path service: direct calls of optimize and requests GET /optimize.
NextService == CallOptimize \/ CallGetOptimize

SpecService == InitPath /\ [][NextService]_vars

(***************************************************************************)
(* Service claims                                                          *)
(***************************************************************************)
\* Some via node of the call has no incoming edge in the graph (a node
\* that is absent from the graph has none).
ViaUnreachable ==
  /\ ViaTruthy(call.via)
  /\ \E v \in ViaNodes(call.via) : \A e \in DOMAIN edges : e[2] # v

\* C13: when start and end are nodes and no directed start-to-end path
\* exists, or a via node has no incoming edge or is absent from the graph,
\* optimize returns the empty list as a normal result, and GET /optimize
\* answers such a request with 404 "No route found".
C13_NoRouteIsNormal ==
  /\ (/\ Returned("optimize")
      /\ call.start \in nodes /\ call.end \in nodes
      /\ \/ DirectedPaths(edges, call.start, call.end) = {}
         \/ ViaUnreachable)
     => ret[1] = <<>>
  /\ (/\ Returned("get_optimize")
      /\ call.source \in nodes /\ call.destination \in nodes
      /\ DirectedPaths(edges, call.source, call.destination) = {})
     => ret[1] = [status |-> 404, detail |-> "No route found"]

\* GET /optimize answered 404 between two nodes of a graph that has edges
\* but no directed path from the one to the other.
C13_Witness ==
  /\ Returned("get_optimize")
  /\ call.source \in nodes /\ call.destination \in nodes
  /\ call.source # call.destination
  /\ DOMAIN edges # {}
  /\ DirectedPaths(edges, call.source, call.destination) = {}
  /\ ret[1].status = 404

\* The objective and the end points of the returned call, and its list.
AskedObjective == call.objective

AskedStart == IF call.op = "optimize" THEN call.start ELSE Lower(call.source)

AskedEnd == IF call.op = "optimize" THEN call.end ELSE Lower(call.destination)

FoundRoute == IF call.op = "optimize" THEN ret[1] ELSE ret[1].route

\* A call of optimize without via node between two distinct nodes that
\* returned a route, directly or through GET /optimize.
RouteFound ==
  /\ pc = "returned"
  /\ \/ call.op = "optimize" /\ ~ViaTruthy(call.via) /\ ret[1] # <<>>
     \/ call.op = "get_optimize" /\ ret[1].status = 200
  /\ AskedStart # AskedEnd
  /\ AskedStart \in nodes /\ AskedEnd \in nodes

\* The total of the field `key` over a list of edge records.
FieldTotal(route, key) ==
  LET I == 1..Len(route) IN SumOver(I, [i \in I |-> route[i][key]])

\* The list of edge records along the node sequence p.
PathRecords(p) == [i \in 1..(Len(p) - 1) |-> edges[<<p[i], p[i + 1]>>]]

\* The returned route has the least total of `key` among the directed
\* paths from start to end.
LeastBy(key) ==
  \A p \in DirectedPaths(edges, AskedStart, AskedEnd) :
    FieldTotal(FoundRoute, key) <= FieldTotal(PathRecords(p), key)

\* C14: optimize minimizes edge time only when objective is "time", edge
\* distance only when objective is "distance", and monetary cost for every
\* other objective value.
C14_ObjectiveMetric ==
  RouteFound =>
    IF AskedObjective = "time" THEN LeastBy("time")
    ELSE IF AskedObjective = "distance" THEN LeastBy("distance")
    ELSE LeastBy("fuel")

\* C14 (amended): optimize minimizes edge time when objective is "time" or
\* "fastest", edge distance when objective is "distance", and monetary
\* cost for every other objective value.
C14_ObjectiveMetricFastest ==
  RouteFound =>
    IF AskedObjective \in {"time", "fastest"} THEN LeastBy("time")
    ELSE IF AskedObjective = "distance" THEN LeastBy("distance")
    ELSE LeastBy("fuel")

\* A request with objective "fastest" got a two-hop route that takes less
\* time and costs more than the direct edge.
C14_Witness ==
  /\ RouteFound
  /\ call.op = "get_optimize" /\ AskedObjective = "fastest"
  /\ Len(FoundRoute) = 2
  /\ <<AskedStart, AskedEnd>> \in DOMAIN edges
  /\ FieldTotal(FoundRoute, "time") < edges[<<AskedStart, AskedEnd>>].time
  /\ FieldTotal(FoundRoute, "fuel") > edges[<<AskedStart, AskedEnd>>].fuel

(***************************************************************************)
(* capacity_optimizer.py                                                   *)
(***************************************************************************)
\* VEHICLE_SPECS (lines 9-16): km/h, and cents per km.
SpecSpeed(t) ==
  CASE t = "truck" -> 80 [] t = "van" -> 90 [] t = "car" -> 100
    [] t = "auto" -> 60 [] t = "bike" -> 80 [] t = "plane" -> 900
    [] OTHER -> 60

SpecCost(t) ==
  CASE t = "truck" -> 50 [] t = "van" -> 40 [] t = "car" -> 30
    [] t = "auto" -> 20 [] t = "bike" -> 10 [] t = "plane" -> 200
    [] OTHER -> 50

\* str.upper() of a lower-case place name (names here have at most 3 letters).
Upper(n) == IF Rank(n) > 3 THEN NameOrder[Rank(n) - 3] ELSE n

\* vehicle_type[:3].upper()
Mode3(t) ==
  CASE t = "truck" -> "TRU" [] t = "van" -> "VAN" [] t = "car" -> "CAR"
    [] t = "auto" -> "AUT" [] t = "bike" -> "BIK" [] t = "plane" -> "PLA"
    [] t = "ship" -> "SHI" [] OTHER -> "???"

\* df.groupby("base_city").cumcount() + 1 (line 38).
CumCount(raw, i) ==
  Cardinality({j \in 1..i :
     Lower(raw[j].WarehouseName) = Lower(raw[i].WarehouseName)})

\* base_city[:3].upper() of a lower-case place name (line 40).
Loc3(city) == IF city \in LongNames THEN "MUM" ELSE Upper(city)

\* prepare_vehicles_df (lines 19-48); vehicle_id <LOC3>-<MODE3>-<NN> is kept
\* as its three parts.  Vehicle types are given in lower case.
prepare_vehicles_df(raw) ==
  [i \in 1..Len(raw) |->
     [vehicle_id |-> [loc3 |-> Loc3(Lower(raw[i].WarehouseName)),
                      mode3 |-> Mode3(raw[i].VehicleType),
                      nn |-> CumCount(raw, i)],
      base_city |-> Lower(raw[i].WarehouseName),
      capacity_kg |-> raw[i].VehicleCapacity,
      speed_kmph |-> SpecSpeed(raw[i].VehicleType),
      cost_per_km |-> SpecCost(raw[i].VehicleType),
      departure_time |-> raw[i].DepartureTime,
      vehicle_type |-> raw[i].VehicleType]]

\* datetime.strptime(s, "%H:%M") with the fallback of lines 122-128.  The
\* text is <<h, m>>, or <<>> for a missing value (TypeError); the result is
\* in seconds since 1900-01-01 00:00.
DefaultDeparture == 8 * 3600

Strptime(s) ==
  IF Len(s) = 2 /\ s[1] \in 0..23 /\ s[2] \in 0..59
  THEN s[1] * 3600 + s[2] * 60
  ELSE DefaultDeparture

\* datetime.strftime("%H:%M"): the minute of the day, the date and the
\* seconds dropped.
Strftime(t) == (t % 86400) \div 60

\* timedelta(hours=distance / speed), in seconds (exact for the speeds of
\* VEHICLE_SPECS and whole km).
TravelSeconds(distance, speed) == (distance * 3600) \div speed

\* round(x, 2) of a weight in grams: to the nearest 10 g.  Weights here are
\* even numbers of grams, so no value lies halfway.
Round2(g) == ((g + 5) \div 10) * 10

\* The filter with the origin compared as given.
AvailableCaseSensitive(df, leg) ==
  {i \in 1..Len(df) : df[i].base_city = leg.from}

\* Rows of the pool based at the leg's origin (lines 70-75).
Available(df, leg) ==
  {i \in 1..Len(df) : Lower(df[i].base_city) = Lower(leg.from)}

\* A coefficient that is zero for every vehicle.
VehicleMetricZero(df, leg, objective, i) == 0

\* Objective coefficient of vehicle i (lines 87-96): seconds of travel for
\* "time", cents otherwise.
VehicleMetric(df, leg, objective, i) ==
  IF objective = "time"
  THEN TravelSeconds(leg.distance, df[i].speed_kmph)
  ELSE df[i].cost_per_km * leg.distance

SelectionObjective(df, leg, objective, S) ==
  SumOver(S, [i \in S |-> VehicleMetric(df, leg, objective, i)])

SelectionCapacity(df, S) == SumOver(S, [i \in S |-> df[i].capacity_kg])

\* Capacity constraint (lines 98-102).
SelectionFeasible(df, leg, total_goods) ==
  {S \in SUBSET Available(df, leg) : SelectionCapacity(df, S) >= total_goods}

\* A solve that reports any feasible selection.
SelectionAnyFeasible(df, leg, total_goods, objective) ==
  SelectionFeasible(df, leg, total_goods)

\* A solve that selects every row at the origin whenever that covers.
SelectionAllRows(df, leg, total_goods, objective) ==
  {S \in SelectionFeasible(df, leg, total_goods) : S = Available(df, leg)}

\* The selections CBC may report with status 1.
SelectionOptimal(df, leg, total_goods, objective) ==
  LET F == SelectionFeasible(df, leg, total_goods)
  IN {S \in F : \A T \in F :
        SelectionObjective(df, leg, objective, S)
          <= SelectionObjective(df, leg, objective, T)}

\* One entry of "vehicles" (lines 118-147).
AssignedVehicle(df, leg, i, load) ==
  LET departure == Strptime(df[i].departure_time)
      arrival == departure + TravelSeconds(leg.distance, df[i].speed_kmph)
  IN [vehicle_id |-> df[i].vehicle_id,
      vehicle_type |-> df[i].vehicle_type,
      load_kg |-> Round2(load),
      departure |-> Strftime(departure),
      arrival |-> Strftime(arrival),
      distance |-> leg.distance,
      fuel_cost |-> df[i].cost_per_km * leg.distance]

\* Line 149: `if not last_arrival or arrival > last_arrival`.
LaterOf(last_arrival, arrival) ==
  IF last_arrival = None \/ arrival > last_arrival[1]
  THEN Some(arrival) ELSE last_arrival

\* A load that ignores the cargo still to be placed.
LoadForFull(capacity, remaining) == capacity

\* load = min(capacity, remaining) (line 119).
LoadFor(capacity, remaining) ==
  IF capacity < remaining THEN capacity ELSE remaining

RECURSIVE LoadWalkAll(_, _, _, _, _, _, _)
\* A loop that lists every selected row, cargo remaining or not.
LoadWalkAll(df, leg, S, i, remaining, assigned, last_arrival) ==
  IF i > Len(df)
  THEN [vehicles |-> assigned, last_arrival |-> last_arrival]
  ELSE IF i \in S
  THEN LET capacity == df[i].capacity_kg
           load == LoadFor(capacity, remaining)
           arrival == Strptime(df[i].departure_time)
                        + TravelSeconds(leg.distance, df[i].speed_kmph)
       IN LoadWalkAll(df, leg, S, i + 1, remaining - load,
                      Append(assigned, AssignedVehicle(df, leg, i, load)),
                      LaterOf(last_arrival, arrival))
  ELSE LoadWalkAll(df, leg, S, i + 1, remaining, assigned, last_arrival)

RECURSIVE LoadWalk(_, _, _, _, _, _, _)
\* The loop of lines 115-150 from row i on: the pool in index order, a row
\* listed when it was selected and cargo remains.
LoadWalk(df, leg, S, i, remaining, assigned, last_arrival) ==
  IF i > Len(df)
  THEN [vehicles |-> assigned, last_arrival |-> last_arrival]
  ELSE IF i \in S /\ remaining > 0
  THEN LET capacity == df[i].capacity_kg
           load == LoadFor(capacity, remaining)
           arrival == Strptime(df[i].departure_time)
                        + TravelSeconds(leg.distance, df[i].speed_kmph)
       IN LoadWalk(df, leg, S, i + 1, remaining - load,
                   Append(assigned, AssignedVehicle(df, leg, i, load)),
                   LaterOf(last_arrival, arrival))
  ELSE LoadWalk(df, leg, S, i + 1, remaining, assigned, last_arrival)

\* The dictionary returned for the selection S (lines 152-159).
LegResult(df, leg, total_goods, S) ==
  LET w == LoadWalk(df, leg, S, 1, total_goods, <<>>, None)
  IN [from |-> leg.from,
      to |-> leg.to,
      vehicles |-> w.vehicles,
      leg_distance |-> leg.distance,
      leg_time |-> leg.time,
      last_arrival |-> IF w.last_arrival = None THEN None
                       ELSE Some(Strftime(w.last_arrival[1]))]

\* Every value assign_vehicles_for_leg(vehicles_df, leg, total_goods,
\* objective) can return: None, or Some(dictionary).
assign_vehicles_for_leg(df, leg, total_goods, objective) ==
  IF Available(df, leg) = {} THEN {None}
  ELSE LET O == SelectionOptimal(df, leg, total_goods, objective)
       IN IF O = {} THEN {None}
          ELSE {Some(LegResult(df, leg, total_goods, S)) : S \in O}

(***************************************************************************)
(* Inputs of the allocation specification                                  *)
(***************************************************************************)
MaxVehicles == 3

\* Rows of a vehicles file: the two trucks of the specification's section 8
\* (home "A"), a van leaving at 23:00, a plane with an unparsable time, a
\* bike carrying 6 g, and a vehicle of unknown type with no time at "b".
VehicleRows ==
  { [WarehouseName |-> "A", VehicleType |-> "truck",
     VehicleCapacity |-> 500000, DepartureTime |-> <<8, 0>>],
    [WarehouseName |-> "A", VehicleType |-> "truck",
     VehicleCapacity |-> 800000, DepartureTime |-> <<9, 0>>],
    [WarehouseName |-> "a", VehicleType |-> "van",
     VehicleCapacity |-> 500000, DepartureTime |-> <<23, 0>>],
    [WarehouseName |-> "a", VehicleType |-> "plane",
     VehicleCapacity |-> 800000, DepartureTime |-> <<24, 0>>],
    [WarehouseName |-> "a", VehicleType |-> "bike",
     VehicleCapacity |-> 6, DepartureTime |-> <<8, 30>>],
    [WarehouseName |-> "b", VehicleType |-> "ship",
     VehicleCapacity |-> 500000, DepartureTime |-> <<>>] }

\* The prepared pools of at most k vehicles.
Pools(k) ==
  {prepare_vehicles_df(raw) : raw \in UNION {[1..n -> VehicleRows] : n \in 0..k}}

Legs ==
  {[from |-> f, to |-> "c", distance |-> d, time |-> 2] :
     f \in {"A", "a", "b", "c"}, d \in {0, 100, 160}}

\* total_goods, in grams.
Goods == {0 - 1000, 0, 6, 600000, 1300000, 3000000}

InitAlloc ==
  /\ vehicles_df \in Pools(MaxVehicles)
  /\ nodes = {}
  /\ edges = <<>>
  /\ pc = "ready"
  /\ call = [op |-> "none"]
  /\ ret = None

\* One call of assign_vehicles_for_leg on the prepared pool.
CallAssign ==
  /\ pc = "ready"
  /\ \E leg \in Legs, total_goods \in Goods, objective \in {"cost", "time"} :
       /\ call' = [op |-> "assign", leg |-> leg, total_goods |-> total_goods,
                   objective |-> objective]
       /\ ret' \in assign_vehicles_for_leg(vehicles_df, leg, total_goods,
                                           objective)
  /\ pc' = "returned"
  /\ UNCHANGED <<nodes, edges, vehicles_df>>

NextAlloc == CallAssign

SpecAlloc == InitAlloc /\ [][NextAlloc]_vars

(***************************************************************************)
(* Allocation claims                                                       *)
(***************************************************************************)
\* Rows whose home location equals the leg origin, case ignored.
OriginRows == {i \in 1..Len(vehicles_df) :
                 Lower(vehicles_df[i].base_city) = Lower(call.leg.from)}

OriginCapacity == SelectionCapacity(vehicles_df, OriginRows)

\* The pool row of a listed vehicle.
RowOf(v) == CHOOSE i \in 1..Len(vehicles_df) :
              vehicles_df[i].vehicle_id = v.vehicle_id

Listed == ret[1].vehicles

ListedRows == {RowOf(Listed[k]) : k \in 1..Len(Listed)}

ListedLoad ==
  LET I == 1..Len(Listed) IN SumOver(I, [k \in I |-> Listed[k].load_kg])

\* C2: with cargoWeight > 0, assign_vehicles_for_leg returns None exactly
\* when the capacities of the vehicles based at the leg origin (case
\* ignored) sum to less than cargoWeight.
C2_InfeasibleIff ==
  (Returned("assign") /\ call.total_goods > 0)
  => (ret = None <=> OriginCapacity < call.total_goods)

\* None is returned although vehicles are based at the origin.
C2_Witness ==
  /\ Returned("assign") /\ call.total_goods > 0
  /\ ret = None
  /\ OriginRows # {}
  /\ call.leg.from = "A"

Centi(g) == g % 10 = 0

C4_ListedOptimal ==
  (Returned("assign") /\ ret # None /\ call.leg.distance > 0)
  => /\ SelectionCapacity(vehicles_df, ListedRows) >= call.total_goods
     /\ \A T \in SUBSET OriginRows :
          SelectionCapacity(vehicles_df, T) >= call.total_goods
          => SelectionObjective(vehicles_df, call.leg, call.objective,
                                ListedRows)
               <= SelectionObjective(vehicles_df, call.leg, call.objective, T)
     /\ (/\ Len(vehicles_df) = 2
         /\ \A i \in 1..2 : vehicles_df[i].vehicle_type = "truck"
         /\ vehicles_df[1].capacity_kg = 500000
         /\ vehicles_df[2].capacity_kg = 800000
         /\ call.total_goods = 600000 /\ OriginRows = {1, 2})
        => ListedRows = {2}

\* The section 8 scenario: both trucks at the origin, 600 kg, one listed.
C4_Witness ==
  /\ Returned("assign") /\ ret # None
  /\ Len(vehicles_df) = 2
  /\ vehicles_df[1].capacity_kg = 500000 /\ vehicles_df[2].capacity_kg = 800000
  /\ vehicles_df[1].vehicle_type = "truck"
  /\ vehicles_df[2].vehicle_type = "truck"
  /\ call.leg.distance = 100 /\ call.total_goods = 600000
  /\ call.objective = "cost"
  /\ Len(Listed) = 1

\* C10: for every assigned vehicle the reported arrival equals the reported
\* departure plus distance/speed exactly, and is never earlier than the
\* reported departure.  (Reported times are minutes of the day.)
C10_ArrivalExact ==
  (Returned("assign") /\ ret # None)
  => \A k \in 1..Len(Listed) :
       /\ Listed[k].arrival * 60
            = Listed[k].departure * 60
              + TravelSeconds(call.leg.distance,
                              vehicles_df[RowOf(Listed[k])].speed_kmph)
       /\ Listed[k].arrival >= Listed[k].departure

\* C11: for every Assignment with at least one vehicle the reported
\* lastArrival equals the maximum of the arrival values reported for the
\* leg's vehicles.
C11_LastArrivalIsMax ==
  (Returned("assign") /\ ret # None /\ Len(Listed) >= 1)
  => /\ ret[1].last_arrival # None
     /\ \E k \in 1..Len(Listed) : Listed[k].arrival = ret[1].last_arrival[1]
     /\ \A k \in 1..Len(Listed) : Listed[k].arrival <= ret[1].last_arrival[1]

\* The cargo still to be placed before the k-th listed vehicle.
RemainingBefore(k) ==
  LET I == 1..(k - 1)
  IN call.total_goods - SumOver(I, [j \in I |-> Listed[j].load_kg])

\* The listed vehicles follow the pool's order, each carries the smaller
\* of its capacity and the cargo remaining before it, all but the last
\* are full, and cargo remains before each of them.
GreedyInPoolOrder ==
  /\ \A k \in 1..(Len(Listed) - 1) : RowOf(Listed[k]) < RowOf(Listed[k + 1])
  /\ \A k \in 1..Len(Listed) :
       LET capacity == vehicles_df[RowOf(Listed[k])].capacity_kg
       IN /\ RemainingBefore(k) > 0
          /\ Listed[k].load_kg
               = IF capacity < RemainingBefore(k) THEN capacity
                 ELSE RemainingBefore(k)
          /\ k < Len(Listed) => Listed[k].load_kg = capacity

CheapestOf(R) ==
  CHOOSE i \in R : \A j \in R \ {i} :
    LET mi == VehicleMetric(vehicles_df, call.leg, call.objective, i)
        mj == VehicleMetric(vehicles_df, call.leg, call.objective, j)
    IN mi < mj \/ (mi = mj /\ i < j)

RECURSIVE GreedyTotal(_, _, _)
\* Greedy selection over the rows R: vehicles are added by ascending
\* metric until the cumulative capacity reaches the demand; the value is
\* the total objective of the vehicles added.
GreedyTotal(R, cumulative, total) ==
  IF cumulative >= call.total_goods \/ R = {} THEN total
  ELSE LET i == CheapestOf(R)
       IN GreedyTotal(R \ {i}, cumulative + vehicles_df[i].capacity_kg,
                      total + VehicleMetric(vehicles_df, call.leg,
                                            call.objective, i))

\* The total objective of the allocation returned: that of the vehicles it
\* lists, which are the solve's selection whenever the metrics are not all
\* zero.
ReportedTotal ==
  SelectionObjective(vehicles_df, call.leg, call.objective, ListedRows)

\* C21: for every pool, leg and demand with a feasible allocation, greedy
\* selection (vehicles by ascending objective metric, added until the
\* cumulative capacity covers the demand) has the same total objective as
\* the 0/1 covering optimum computed by assign_vehicles_for_leg.
C21_GreedyIsOptimal ==
  (Returned("assign") /\ ret # None)
  => ReportedTotal = GreedyTotal(OriginRows, 0, 0)

\* C21 (amended): the optimum's total objective is never above that of
\* greedy selection, and the two are equal when all vehicles based at the
\* origin have the same capacity.
C21_GreedyIsUpperBound ==
  (Returned("assign") /\ ret # None)
  => LET greedy == GreedyTotal(OriginRows, 0, 0)
     IN /\ ReportedTotal <= greedy
        /\ (\A i \in OriginRows : \A j \in OriginRows :
              vehicles_df[i].capacity_kg = vehicles_df[j].capacity_kg)
           => ReportedTotal = greedy

\* Two vehicles of equal capacity and different cost at the origin, listed
\* is the second, cheaper one alone, which greedy selection takes first.
C21_Witness ==
  /\ Returned("assign") /\ ret # None
  /\ call.leg.distance > 0 /\ call.total_goods > 0
  /\ call.objective = "cost"
  /\ Cardinality(OriginRows) = 2
  /\ \A i \in OriginRows : vehicles_df[i].capacity_kg = 500000
  /\ Len(Listed) = 1
  /\ ListedRows \in SelectionOptimal(vehicles_df, call.leg,
                                     call.total_goods, call.objective)
  /\ CheapestOf(OriginRows) = RowOf(Listed[1])
  /\ \E i \in OriginRows : i < RowOf(Listed[1])
  /\ ReportedTotal = GreedyTotal(OriginRows, 0, 0)

\* The load placed on the k-th listed vehicle before it is rounded for the
\* report: the smaller of its capacity and the cargo the vehicles listed
\* before it, all full, have left.
PlacedLoad(k) ==
  LET I == 1..(k - 1)
      before == call.total_goods
                  - SumOver(I, [j \in I |->
                      vehicles_df[RowOf(Listed[j])].capacity_kg])
      capacity == vehicles_df[RowOf(Listed[k])].capacity_kg
  IN IF capacity < before THEN capacity ELSE before

RouteNodes(route) ==
  [k \in 1..(Len(route) + 1) |->
     IF k <= Len(route) THEN route[k].from ELSE route[Len(route)].to]

RECURSIVE LegLoopSkip(_, _, _, _, _, _, _)
\* A loop that leaves an infeasible leg out of the plan and goes on.
LegLoopSkip(df, route, goods_kg, objective, k, legs_output, final_arrival) ==
  IF k > Len(route)
  THEN {[status |-> 200,
         route_legs |-> route,
         calls |-> Len(route),
         capacity_plan |->
           [total_goods_kg |-> goods_kg,
            route |-> RouteNodes(route),
            objective |-> objective,
            legs |-> legs_output,
            final_delivery_time |-> final_arrival]]}
  ELSE UNION {
         IF a = None
         THEN LegLoopSkip(df, route, goods_kg, objective, k + 1, legs_output,
                          final_arrival)
         ELSE LegLoopSkip(df, route, goods_kg, objective, k + 1,
                          Append(legs_output, a[1]), a[1].last_arrival)
         : a \in assign_vehicles_for_leg(df, route[k], goods_kg, objective)}

\* The pool without the vehicles listed in an assignment.
Residual(df, assignment) ==
  LET used == {assignment.vehicles[i].vehicle_id :
                 i \in 1..Len(assignment.vehicles)}
  IN SelectSeq(df, LAMBDA v : v.vehicle_id \notin used)

RECURSIVE LegLoopResidual(_, _, _, _, _, _, _)
\* A loop that hands to each leg what the earlier legs left of the pool.
LegLoopResidual(df, route, goods_kg, objective, k, legs_output, final) ==
  IF k > Len(route)
  THEN {[status |-> 200,
         route_legs |-> route,
         calls |-> Len(route),
         capacity_plan |->
           [total_goods_kg |-> goods_kg,
            route |-> RouteNodes(route),
            objective |-> objective,
            legs |-> legs_output,
            final_delivery_time |-> final]]}
  ELSE UNION {
         IF a = None
         THEN {[status |-> 400,
                route_legs |-> route,
                calls |-> k,
                detail |-> [from |-> route[k].from, to |-> route[k].to]]}
         ELSE LegLoopResidual(Residual(df, a[1]), route, goods_kg, objective,
                              k + 1, Append(legs_output, a[1]),
                              a[1].last_arrival)
         : a \in assign_vehicles_for_leg(df, route[k], goods_kg, objective)}

RECURSIVE LegLoopNonEmpty(_, _, _, _, _, _, _)
\* A loop that refuses a leg whose assignment lists no vehicle.
LegLoopNonEmpty(df, route, goods_kg, objective, k, legs_output, final) ==
  IF k > Len(route)
  THEN {[status |-> 200,
         route_legs |-> route,
         calls |-> Len(route),
         capacity_plan |->
           [total_goods_kg |-> goods_kg,
            route |-> RouteNodes(route),
            objective |-> objective,
            legs |-> legs_output,
            final_delivery_time |-> final]]}
  ELSE UNION {
         IF a = None \/ a[1].vehicles = <<>>
         THEN {[status |-> 400,
                route_legs |-> route,
                calls |-> k,
                detail |-> [from |-> route[k].from, to |-> route[k].to]]}
         ELSE LegLoopNonEmpty(df, route, goods_kg, objective, k + 1,
                              Append(legs_output, a[1]), a[1].last_arrival)
         : a \in assign_vehicles_for_leg(df, route[k], goods_kg, objective)}

RECURSIVE LegLoop(_, _, _, _, _, _, _)
\* The loop of lines 306-321 from the k-th listed leg on, then lines
\* 323-329.  Every outcome records in `calls` how many legs were handed to
\* assign_vehicles_for_leg.
LegLoop(df, route, goods_kg, objective, k, legs_output, final_arrival) ==
  IF k > Len(route)
  THEN {[status |-> 200,
         route_legs |-> route,
         calls |-> Len(route),
         capacity_plan |->
           [total_goods_kg |-> goods_kg,
            route |-> RouteNodes(route),
            objective |-> objective,
            legs |-> legs_output,
            final_delivery_time |-> final_arrival]]}
  ELSE UNION {
         IF a = None
         THEN {[status |-> 400,
                route_legs |-> route,
                calls |-> k,
                detail |-> [from |-> route[k].from, to |-> route[k].to]]}
         ELSE LegLoop(df, route, goods_kg, objective, k + 1,
                      Append(legs_output, a[1]), a[1].last_arrival)
         : a \in assign_vehicles_for_leg(df, route[k], goods_kg, objective)}

\* Every response of POST /optimize-with-capacity (lines 282-340) on the
\* loaded graph N, E and the prepared pool df (an empty pool stands for
\* `vehicles_df is None` too: both answer 400).
optimize_with_capacity(N, E, df, source, destination, goods_kg, objective) ==
  IF source \notin N \/ destination \notin N
  THEN {[status |-> 400, route_legs |-> <<>>, calls |-> 0,
         detail |-> "Invalid source or destination"]}
  ELSE IF Len(df) = 0
  THEN {[status |-> 400, route_legs |-> <<>>, calls |-> 0,
         detail |-> "Vehicles data not loaded"]}
  ELSE UNION {
         IF route = <<>>
         THEN {[status |-> 404, route_legs |-> <<>>, calls |-> 0,
                detail |-> "No route found"]}
         ELSE LegLoop(df, route, goods_kg, objective, 1, <<>>, None)
         : route \in optimize(N, E, Lower(source), Lower(destination),
                              objective, ViaNone)}

(***************************************************************************)
(* Inputs of the plan specification: a loaded graph and a prepared pool    *)
(***************************************************************************)
MaxPlanEdges == 2

MaxPlanVehicles == 2

PlanProfiles == { [fuel |-> 1, time |-> 2, distance |-> 100] }

\* A row of /upload from a place to itself spans no distance: haversine
\* gives 0, and so do the time and fuel derived from it.
LoopProfile == [fuel |-> 0, time |-> 0, distance |-> 0]

PlanEdgeDicts(V, k) ==
  UNION { {[e \in K |-> EdgeRecord(e, IF e[1] = e[2] THEN LoopProfile
                                       ELSE w[e])] : w \in [K -> PlanProfiles]} :
          K \in {K \in SUBSET (V \X V) : Cardinality(K) <= k} }

PlanRows ==
  { [WarehouseName |-> "A", VehicleType |-> "truck",
     VehicleCapacity |-> 500000, DepartureTime |-> <<8, 0>>],
    [WarehouseName |-> "A", VehicleType |-> "truck",
     VehicleCapacity |-> 800000, DepartureTime |-> <<9, 0>>],
    [WarehouseName |-> "b", VehicleType |-> "ship",
     VehicleCapacity |-> 500000, DepartureTime |-> <<>>] }

PlanPools(k) ==
  {prepare_vehicles_df(raw) : raw \in UNION {[1..n -> PlanRows] : n \in 0..k}}

\* Cargo of the request: none, less than none, one truck, two trucks.
PlanGoods == {-2, 0, 400000, 1300000}

InitPlan ==
  /\ edges \in PlanEdgeDicts(GraphNames, MaxPlanEdges)
  /\ nodes = EndPoints(edges)
  /\ vehicles_df \in PlanPools(MaxPlanVehicles)
  /\ pc = "ready"
  /\ call = [op |-> "none"]
  /\ ret = None

\* One request POST /optimize-with-capacity.
CallPlan ==
  /\ pc = "ready"
  /\ \E source \in {"A", "a", "b", "c"}, destination \in GraphNames,
        goods_kg \in PlanGoods, objective \in {"cost", "time"} :
       /\ call' = [op |-> "plan", source |-> source,
                   destination |-> destination, goods_kg |-> goods_kg,
                   objective |-> objective]
       /\ \E r \in optimize_with_capacity(nodes, edges, vehicles_df, source,
                                          destination, goods_kg, objective) :
            ret' = Some(r)
  /\ pc' = "returned"
  /\ UNCHANGED <<nodes, edges, vehicles_df>>

NextPlan == CallPlan

SpecPlan == InitPlan /\ [][NextPlan]_vars

(***************************************************************************)
(* Plan claims                                                             *)
(***************************************************************************)
Plan == ret[1].capacity_plan

PlanReturned == Returned("plan") /\ ret[1].status = 200

\* C7: in every plan the legs are listed in travel order (the first leg
\* leaves the start node, every later leg leaves the previous leg's
\* destination, the last leg reaches the end node) and the plan's node
\* sequence is the start node followed by each leg's destination.
C7_TravelOrder ==
  (PlanReturned /\ call.goods_kg > 0) =>
    LET legs == Plan.legs
        n == Len(legs)
    IN /\ legs[1].from = Lower(call.source)
       /\ \A k \in 2..n : legs[k].from = legs[k - 1].to
       /\ legs[n].to = Lower(call.destination)
       /\ Plan.route
            = [k \in 1..(n + 1) |->
                 IF k = 1 THEN Lower(call.source) ELSE legs[k - 1].to]

\* C8: for every multi-leg plan the final-delivery time is the lastArrival
\* of the leg that arrives at the end node.
C8_FinalIsLastLeg ==
  (PlanReturned /\ Len(Plan.legs) >= 2)
  => \A k \in 1..Len(Plan.legs) :
       Plan.legs[k].to = Lower(call.destination)
       => Plan.final_delivery_time = Plan.legs[k].last_arrival

\* The vehicles based at a leg's origin exist and cover the cargo.
LegCovered(leg) ==
  LET rows == {i \in 1..Len(vehicles_df) :
                 Lower(vehicles_df[i].base_city) = Lower(leg.from)}
  IN rows # {} /\ SelectionCapacity(vehicles_df, rows) >= call.goods_kg

\* C9: if the allocation of a leg is infeasible, optimize_with_capacity
\* stops at the first such leg without allocating later legs, answers with
\* an error naming that leg's origin and destination, and returns no plan;
\* otherwise it returns a plan with every leg.
C9_AllOrNothing ==
  (Returned("plan") /\ ret[1].route_legs # <<>>)
  => LET route == ret[1].route_legs
         bad == {k \in 1..Len(route) : ~LegCovered(route[k])}
     IN IF bad = {}
        THEN /\ ret[1].status = 200
             /\ Len(Plan.legs) = Len(route)
        ELSE LET k == CHOOSE j \in bad : \A i \in bad : j <= i
             IN /\ ret[1].status = 400
                /\ ret[1].detail = [from |-> route[k].from, to |-> route[k].to]
                /\ ret[1].calls = k
                /\ "capacity_plan" \notin DOMAIN ret[1]

\* The first listed leg is infeasible, the second one would be feasible
\* and was not allocated.
C9_Witness ==
  /\ Returned("plan")
  /\ call.goods_kg > 0
  /\ Len(ret[1].route_legs) = 2
  /\ ret[1].status = 400
  /\ ret[1].calls = 1
  /\ LegCovered(ret[1].route_legs[2])

\* Every leg of the answer was allocated as it is in isolation on the
\* loaded pool, with the request's cargo and objective: a listed leg is a
\* result of that allocation, and a refused leg is refused by it.
LegsAllocatedInIsolation ==
  (Returned("plan") /\ ret[1].route_legs # <<>>)
  => LET route == ret[1].route_legs
     IN IF ret[1].status = 200
        THEN /\ Len(Plan.legs) = Len(route)
             /\ Plan.total_goods_kg = call.goods_kg
             /\ Plan.objective = call.objective
             /\ \A k \in 1..Len(route) :
                  Some(Plan.legs[k])
                    \in assign_vehicles_for_leg(vehicles_df, route[k],
                                                call.goods_kg, call.objective)
        ELSE None \in assign_vehicles_for_leg(vehicles_df,
                                              route[ret[1].calls],
                                              call.goods_kg, call.objective)

\* C15: a request leaves nodes, edges and the vehicle pool unchanged (its
\* calls of optimize and of assign_vehicles_for_leg mutate none of them),
\* and within one plan every leg is allocated against the same full pool
\* with the same cargo and objective, as that leg is in isolation: no
\* capacity is consumed by earlier legs.
C15_SideEffectFree ==
  /\ [][/\ nodes' = nodes
        /\ edges' = edges
        /\ vehicles_df' = vehicles_df]_vars
  /\ []LegsAllocatedInIsolation

\* Two legs of one plan leave the same place and list the same vehicle.
C15_Witness ==
  /\ PlanReturned
  /\ call.goods_kg > 0
  /\ \E j \in 1..Len(Plan.legs) : \E k \in 1..Len(Plan.legs) :
       /\ j < k
       /\ Plan.legs[j].from = Plan.legs[k].from
       /\ Len(Plan.legs[j].vehicles) = 1
       /\ Len(Plan.legs[k].vehicles) = 1
       /\ Plan.legs[j].vehicles[1].vehicle_id
            = Plan.legs[k].vehicles[1].vehicle_id

(***************************************************************************)
(* utils.py: road_metrics, air_metrics; main.py: POST /upload              *)
(*                                                                         *)
(* A row of a route file is its two place names and the great-circle       *)
(* distance of its coordinates in metres (the value haversine returns).    *)
(* The loaded `nodes` are kept as the set of their keys.  Stored distances *)
(* are hundredths of a km, times hundredths of an hour, fuel is in cents.  *)
(***************************************************************************)
\* round(n / d) for n >= 0, d > 0; the inputs below have no value halfway.
RoundDiv(n, d) == (2 * n + d) \div (2 * d)

\* get_fuel_price (utils.py, lines 25-54): cents per litre.
get_fuel_price(country_code, fuel_type) ==
  CASE country_code = "US" /\ fuel_type = "diesel" -> 120
    [] country_code = "US" /\ fuel_type = "jet" -> 90
    [] country_code = "IN" /\ fuel_type = "diesel" -> 85
    [] country_code = "IN" /\ fuel_type = "jet" -> 75
    [] country_code = "UK" /\ fuel_type = "diesel" -> 150
    [] country_code = "UK" /\ fuel_type = "jet" -> 110
    [] country_code = "DE" /\ fuel_type = "diesel" -> 160
    [] country_code = "DE" /\ fuel_type = "jet" -> 115
    [] country_code = "AU" /\ fuel_type = "diesel" -> 140
    [] country_code = "AU" /\ fuel_type = "jet" -> 95
    [] OTHER -> 120

\* road_metrics (utils.py, lines 57-70): 50 km/h, 4 km per litre.
road_metrics(dist, country_code) ==
  [time |-> RoundDiv(dist, 500),
   fuel |-> RoundDiv(dist * get_fuel_price(country_code, "diesel"), 4000)]

\* air_metrics (utils.py, lines 73-86): 800 km/h, 5 litres per km.
air_metrics(dist, country_code) ==
  [time |-> RoundDiv(dist, 8000),
   fuel |-> RoundDiv(dist * 5 * get_fuel_price(country_code, "jet"), 1000)]

\* The edge dictionary built from a row (main.py, lines 133-145 and
\* 161-173), without its coordinates and geometry.
UploadEdge(r, mode, country) ==
  LET m == IF mode = "air" THEN air_metrics(r.dist, country)
           ELSE road_metrics(r.dist, country)
  IN [from |-> Lower(r.src), to |-> Lower(r.dst), mode |-> mode,
      distance |-> RoundDiv(r.dist, 10), time |-> m.time, fuel |-> m.fuel]

\* E with E[k] = v set.
DictSet(E, k, v) ==
  [x \in (DOMAIN E) \cup {k} |-> IF x = k THEN v ELSE E[x]]

RECURSIVE ProcessAir(_, _, _, _, _)
\* The loop of lines 123-145 from row i on, over the dictionaries N and E.
ProcessAir(rows, i, country, N, E) ==
  IF i > Len(rows) THEN [nodes |-> N, edges |-> E]
  ELSE LET e == UploadEdge(rows[i], "air", country)
       IN ProcessAir(rows, i + 1, country, N \cup {e.from, e.to},
                     DictSet(E, <<e.from, e.to>>, e))

RECURSIVE ProcessRoadOverwrite(_, _, _, _, _)
\* A road loop that stores every row, whatever the pair holds.
ProcessRoadOverwrite(rows, i, country, N, E) ==
  IF i > Len(rows) THEN [nodes |-> N, edges |-> E]
  ELSE LET e == UploadEdge(rows[i], "road", country)
       IN ProcessRoadOverwrite(rows, i + 1, country, N \cup {e.from, e.to},
                               DictSet(E, <<e.from, e.to>>, e))

RECURSIVE ProcessRoad(_, _, _, _, _)
\* The loop of lines 148-173 from row i on.
ProcessRoad(rows, i, country, N, E) ==
  IF i > Len(rows) THEN [nodes |-> N, edges |-> E]
  ELSE LET e == UploadEdge(rows[i], "road", country)
           k == <<e.from, e.to>>
       IN ProcessRoad(rows, i + 1, country, N \cup {e.from, e.to},
                      IF k \notin DOMAIN E \/ E[k].mode # "air"
                      THEN DictSet(E, k, e) ELSE E)

\* Lines 122-173: the air rows, then the road rows.
ProcessFiles(files, N, E) ==
  LET a == ProcessAir(files.air.rows, 1, files.country, N, E)
  IN ProcessRoad(files.road.rows, 1, files.country, a.nodes, a.edges)

(***************************************************************************)
(* main.py: POST /upload-vehicles                                          *)
(***************************************************************************)
\* The global vehicles_df and the response after upload_vehicles (lines
\* 199-231) on a file.  The global is bound to the parsed file as it is
\* read (lines 204-207), before its columns are checked; a file without
\* the required columns is answered 400 (lines 211-215, 227-228) and the
\* global keeps the unprepared table.
upload_vehicles(file) ==
  IF file.cols
  THEN [vehicles_df |-> prepare_vehicles_df(file.rows),
        response |-> [status |-> 200, vehicles_loaded |-> Len(file.rows)]]
  ELSE [vehicles_df |-> [unprepared |-> file.rows],
        response |-> [status |-> 400]]

(***************************************************************************)
(* Inputs of the upload specification: two requests POST /upload.  A       *)
(* handler runs without interruption between two awaits, so a request is   *)
(* three steps: up to `await air.read()`, up to `await road.read()`, and   *)
(* the rest.                                                               *)
(***************************************************************************)
MaxRows == 2

Requests == {1, 2}

AirRowSet ==
  { [src |-> "A", dst |-> "b", dist |-> 123456],
    [src |-> "b", dst |-> "c", dist |-> 300000] }

RoadRowSet ==
  { [src |-> "a", dst |-> "b", dist |-> 123456],
    [src |-> "a", dst |-> "b", dist |-> 150000],
    [src |-> "c", dst |-> "a", dist |-> 50000] }

\* A file: whether it has the required columns, and its rows.
FilesOf(R, k) ==
  {[cols |-> TRUE, rows |-> rows] :
     rows \in UNION {[1..n -> R] : n \in 0..k}}
  \cup {[cols |-> FALSE, rows |-> <<>>]}

\* What the first request may send.
Uploads ==
  [air : FilesOf(AirRowSet, MaxRows), road : FilesOf(RoadRowSet, MaxRows),
   country : {"US", "ZZ"}]

\* What the second request may send.
OtherUploads ==
  { [air |-> [cols |-> TRUE,
              rows |-> <<[src |-> "c", dst |-> "a", dist |-> 200000]>>],
     road |-> [cols |-> TRUE,
               rows |-> <<[src |-> "a", dst |-> "b", dist |-> 99999]>>],
     country |-> "US"],
    [air |-> [cols |-> TRUE, rows |-> <<>>],
     road |-> [cols |-> TRUE,
               rows |-> <<[src |-> "b", dst |-> "c", dist |-> 70000]>>],
     country |-> "IN"] }

\* Two requests POST /upload-vehicles: a file with the required columns,
\* and a file without them.
VehicleRequests == {3, 4}

VehicleUploads ==
  [r \in VehicleRequests |->
     IF r = 3
     THEN [cols |-> TRUE,
           rows |-> <<[WarehouseName |-> "A", VehicleType |-> "truck",
                       VehicleCapacity |-> 500000,
                       DepartureTime |-> <<8, 0>>]>>]
     ELSE [cols |-> FALSE, rows |-> <<>>]]

\* nodes = {}, edges = {} and vehicles_df = None (lines 60-63); call[r]
\* holds the files of request r, pc[r] its position, ret[r] its response.
InitUpload ==
  /\ nodes = {}
  /\ edges = <<>>
  /\ vehicles_df = NoPool
  /\ pc = [r \in Requests \cup VehicleRequests |-> "idle"]
  /\ call \in {[r \in Requests \cup VehicleRequests |->
                  IF r = 1 THEN u ELSE IF r = 2 THEN o ELSE VehicleUploads[r]] :
                 u \in Uploads, o \in OtherUploads}
  /\ ret = [r \in Requests \cup VehicleRequests |-> None]

\* The `except Exception` of lines 184-186.
UploadError == [status |-> 500]

\* Lines 84-91: the globals are rebound to fresh dictionaries, then the
\* handler awaits the bytes of the air file.
UploadBegin(r) ==
  /\ pc[r] = "idle"
  /\ nodes' = {}
  /\ edges' = <<>>
  /\ pc' = [pc EXCEPT ![r] = "air_read"]
  /\ UNCHANGED <<vehicles_df, call, ret>>

\* Lines 92-107: the air file is parsed and its columns are checked, then
\* the handler awaits the bytes of the road file.
UploadAirRead(r) ==
  /\ pc[r] = "air_read"
  /\ IF call[r].air.cols
     THEN /\ pc' = [pc EXCEPT ![r] = "road_read"]
          /\ ret' = ret
     ELSE /\ pc' = [pc EXCEPT ![r] = "done"]
          /\ ret' = [ret EXCEPT ![r] = Some(UploadError)]
  /\ UNCHANGED <<nodes, edges, vehicles_df, call>>

\* Lines 108-182: the road file is parsed and checked, and the rows of
\* both files are written into the dictionaries the globals name now.
UploadProcess(r) ==
  /\ pc[r] = "road_read"
  /\ IF call[r].road.cols
     THEN LET g == ProcessFiles(call[r], nodes, edges)
          IN /\ nodes' = g.nodes
             /\ edges' = g.edges
             /\ ret' = [ret EXCEPT ![r] =
                          Some([status |-> 200,
                                nodes |-> Cardinality(g.nodes),
                                edges |-> Cardinality(DOMAIN g.edges)])]
     ELSE /\ UNCHANGED <<nodes, edges>>
          /\ ret' = [ret EXCEPT ![r] = Some(UploadError)]
  /\ pc' = [pc EXCEPT ![r] = "done"]
  /\ UNCHANGED <<vehicles_df, call>>

\* Lines 204-225 of upload_vehicles, after its one await (line 203).
UploadVehicles(r) ==
  /\ pc[r] = "idle"
  /\ vehicles_df' = upload_vehicles(call[r]).vehicles_df
  /\ ret' = [ret EXCEPT ![r] = Some(upload_vehicles(call[r]).response)]
  /\ pc' = [pc EXCEPT ![r] = "done"]
  /\ UNCHANGED <<nodes, edges, call>>

NextUpload ==
  \/ \E r \in Requests :
       UploadBegin(r) \/ UploadAirRead(r) \/ UploadProcess(r)
  \/ \E r \in VehicleRequests : UploadVehicles(r)

SpecUpload == InitUpload /\ [][NextUpload]_vars

(***************************************************************************)
(* Upload claims                                                           *)
(***************************************************************************)
\* The ordered pairs named by the rows of a file, as stored (lower case).
PairsOf(file) ==
  {<<Lower(file.rows[i].src), Lower(file.rows[i].dst)>> :
     i \in 1..Len(file.rows)}

\* The last row of the file that names the pair k.
LastRowOf(file, k) ==
  LET I == {i \in 1..Len(file.rows) :
              <<Lower(file.rows[i].src), Lower(file.rows[i].dst)>> = k}
  IN file.rows[CHOOSE i \in I : \A j \in I : j <= i]

\* Request r completes its upload with success in this step.
Ingests(r) ==
  /\ pc[r] = "road_read" /\ pc'[r] = "done"
  /\ ret'[r] # None /\ ret'[r][1].status = 200

\* C16: after an upload, every ordered pair for which both an air row and
\* a road row were ingested holds an edge of mode air, whatever the order
\* of the rows; a road row replaces a road edge already held for its pair
\* (the pair then holds the last road row); and every pair holds one edge,
\* the one filed under its own origin and destination.
C16_AirOverRoad ==
  [][\A r \in Requests :
       Ingests(r) =>
         /\ \A k \in PairsOf(call[r].air) \cap PairsOf(call[r].road) :
              k \in DOMAIN edges' /\ edges'[k].mode = "air"
         /\ \A k \in PairsOf(call[r].road) \ PairsOf(call[r].air) :
              (k \notin DOMAIN edges \/ edges[k].mode = "road")
              => /\ k \in DOMAIN edges'
                 /\ edges'[k].mode = "road"
                 /\ edges'[k].distance
                      = RoundDiv(LastRowOf(call[r].road, k).dist, 10)
         /\ \A k \in DOMAIN edges' :
              edges'[k].from = k[1] /\ edges'[k].to = k[2]]_vars

\* The first request is done alone; its air file names A->b, its road
\* file names a->b twice, and the pair (a, b) holds the air edge.
C16_Witness ==
  /\ pc[1] = "done" /\ pc[2] = "idle"
  /\ ret[1] # None /\ ret[1][1].status = 200
  /\ <<"a", "b">> \in PairsOf(call[1].air)
  /\ Len(call[1].road.rows) = 2
  /\ PairsOf(call[1].road) = {<<"a", "b">>}
  /\ call[1].road.rows[1] # call[1].road.rows[2]
  /\ edges[<<"a", "b">>].mode = "air"

\* The graph a request builds from its files alone.
GraphOf(files) == ProcessFiles(files, {}, <<>>)

\* C17: for every interleaving of two /upload requests, once both have
\* completed (with success) the loaded nodes and edges are the graph built
\* from the files of exactly one of the two requests.
C17_WholesaleReplace ==
  (\A r \in Requests :
     pc[r] = "done" /\ ret[r] # None /\ ret[r][1].status = 200)
  => \E r \in Requests :
       /\ nodes = GraphOf(call[r]).nodes
       /\ edges = GraphOf(call[r]).edges

\* C23: in every multi-leg plan no vehicle of a leg departs before the
\* lastArrival of the leg that precedes it on the path (the leg that ends
\* where this one starts).  Stated for the plans whose legs each join two
\* distinct places.
C23_DepartAfterArrival ==
  (/\ PlanReturned /\ call.goods_kg > 0 /\ Len(Plan.legs) >= 2
   /\ \A k \in 1..Len(Plan.legs) : Plan.legs[k].from # Plan.legs[k].to)
  => \A j \in 1..Len(Plan.legs) : \A k \in 1..Len(Plan.legs) :
       (j # k /\ Plan.legs[j].to = Plan.legs[k].from
        /\ Plan.legs[j].last_arrival # None)
       => \A v \in 1..Len(Plan.legs[k].vehicles) :
            Plan.legs[k].vehicles[v].departure
              >= Plan.legs[j].last_arrival[1]

\* The files of request r lack required columns: the request is rejected.
Rejected(r) ==
  IF r \in Requests THEN ~call[r].air.cols \/ ~call[r].road.cols
  ELSE ~call[r].cols

\* The request found a route and every leg of it starts where the pool has
\* a vehicle.
EveryLegServed ==
  /\ Returned("plan")
  /\ ret[1].route_legs # <<>>
  /\ \A k \in 1..Len(ret[1].route_legs) :
       Available(vehicles_df, ret[1].route_legs[k]) # {}

\* C27: with a cargo weight <= 0 and a vehicle at the origin of the leg,
\* assign_vehicles_for_leg does not report the leg infeasible: it returns
\* an assignment with no vehicle and no last arrival.  The plan request
\* accepts that as a successful leg, so it answers 200 and its final
\* delivery time is absent; it answers 400 in the leg loop only for a leg
\* with no vehicle at its origin.
C27_EmptyAssignmentAccepted ==
  (Returned("plan") /\ call.goods_kg <= 0)
  => /\ EveryLegServed
        => /\ ret[1].status = 200
           /\ Len(ret[1].capacity_plan.legs) = Len(ret[1].route_legs)
           /\ \A k \in 1..Len(ret[1].capacity_plan.legs) :
                /\ ret[1].capacity_plan.legs[k].vehicles = <<>>
                /\ ret[1].capacity_plan.legs[k].last_arrival = None
           /\ ret[1].capacity_plan.final_delivery_time = None
     /\ (ret[1].status = 400 /\ ret[1].calls >= 1)
        => Available(vehicles_df, ret[1].route_legs[ret[1].calls]) = {}

\* A plan of two legs for a negative cargo, a vehicle at each origin.
C27_Witness ==
  /\ EveryLegServed
  /\ call.goods_kg < 0
  /\ Len(ret[1].route_legs) = 2
  /\ ret[1].status = 200
  /\ ret[1].capacity_plan.final_delivery_time = None

\* A graph and a pool have been loaded by accepted uploads, and no
\* request other than r is under way.
SnapshotLoaded(r) ==
  /\ \E o \in Requests \ {r} :
       pc[o] = "done" /\ ret[o][1].status = 200 /\ DOMAIN edges # {}
  /\ \E o \in VehicleRequests \ {r} :
       pc[o] = "done" /\ ret[o][1].status = 200
  /\ \A o \in (Requests \cup VehicleRequests) \ {r} :
       pc[o] \in {"idle", "done"}

\* C24: an upload that is rejected for missing columns (network upload or
\* vehicle upload) leaves the previously loaded nodes, edges and prepared
\* vehicle pool exactly as they were before the call: no step of such a
\* request changes them.
C24_RejectedKeepsSnapshot ==
  [][\A r \in Requests \cup VehicleRequests :
       (Rejected(r) /\ SnapshotLoaded(r) /\ pc'[r] # pc[r])
       => /\ nodes' = nodes
          /\ edges' = edges
          /\ vehicles_df' = vehicles_df]_vars

(***************************************************************************)
(* Inputs of the vehicle file specification                                *)
(***************************************************************************)
MaxFileRows == 3

\* Rows of a vehicles file: warehouses whose names share their first
\* three letters, and one that does not.
FileRows ==
  { [WarehouseName |-> "Mumbai", VehicleType |-> "truck",
     VehicleCapacity |-> 500000, DepartureTime |-> <<8, 0>>],
    [WarehouseName |-> "mumbra", VehicleType |-> "truck",
     VehicleCapacity |-> 800000, DepartureTime |-> <<9, 0>>],
    [WarehouseName |-> "mumbra", VehicleType |-> "van",
     VehicleCapacity |-> 500000, DepartureTime |-> <<>>],
    [WarehouseName |-> "A", VehicleType |-> "truck",
     VehicleCapacity |-> 500000, DepartureTime |-> <<8, 0>>],
    [WarehouseName |-> "a", VehicleType |-> "truck",
     VehicleCapacity |-> 6, DepartureTime |-> <<8, 30>>] }

InitVehicles ==
  /\ nodes = {}
  /\ edges = <<>>
  /\ vehicles_df = NoPool
  /\ pc = "ready"
  /\ call = [op |-> "none"]
  /\ ret = None

\* One request POST /upload-vehicles; another may follow it.
CallUploadVehicles ==
  /\ pc = "ready"
  /\ \E file \in FilesOf(FileRows, MaxFileRows) :
       /\ call' = [op |-> "upload_vehicles", file |-> file]
       /\ vehicles_df' = upload_vehicles(file).vehicles_df
       /\ ret' = Some(upload_vehicles(file).response)
  /\ UNCHANGED <<nodes, edges, pc>>

NextVehicles == CallUploadVehicles

SpecVehicles == InitVehicles /\ [][NextVehicles]_vars

(***************************************************************************)
(* Vehicle file claims                                                     *)
(***************************************************************************)
\* The last upload was accepted: vehicles_df is a prepared pool.
PoolLoaded == call.op = "upload_vehicles" /\ ret # None /\ ret[1].status = 200

\* C25: in every pool produced by prepare_vehicles_df no two vehicles
\* share the same vehicle_id, and the sequence number counts 1, 2, ... per
\* home location in ingestion order.
C25_UniqueVehicleId ==
  PoolLoaded
  => /\ \A i \in 1..Len(vehicles_df) : \A j \in 1..Len(vehicles_df) :
          i # j => vehicles_df[i].vehicle_id # vehicles_df[j].vehicle_id
     /\ \A i \in 1..Len(vehicles_df) :
          vehicles_df[i].vehicle_id.nn
            = Cardinality({j \in 1..i : vehicles_df[j].base_city
                                          = vehicles_df[i].base_city})

====
